---- MODULE Spec2Model ----
(***************************************************************************)
(* Model of src/services/storage.ts (storageService over localStorage)     *)
(* and of its callers in the application component (src/unnamed/part_000). *)
(*                                                                         *)
(* Every `await delay(ms)` is a point where the event loop may run another *)
(* operation; the code between two delays runs in one turn.  An operation  *)
(* is therefore a sequence of "turns":                                     *)
(*   getAll            : one turn  (read / seed)                           *)
(*   save, delete      : one turn  (getAll's read, modify, write)          *)
(*   toggleStatus, addLog, resolveMaintenance :                            *)
(*                       turn A (getAll's read, find, mutate the item),    *)
(*                       turn C (save's read, modify, write, notify)       *)
(* The notification methods contain no delay: one turn each.               *)
(*                                                                         *)
(* Fields of the records that no code path reads (brand, category,         *)
(* purchaseDate, a log's date and description) are left out.               *)
(***************************************************************************)
EXTENDS Integers, Sequences, FiniteSets, TLC

\* ------------------------------------------------------------- bounds
MaxTime == 2      \* clock readings are drawn from 1..MaxTime
MaxNotifs == 2    \* operations that would add a notification stop at this many
MaxOps == 3       \* overlapping runs start at most this many operations
MaxStepOps == 3   \* the same, where the two writes of a last turn are separate steps

\* ---------------------------------------------------------- constants
STORAGE_KEY == "sound_equip_db_v1"
NOTIFICATIONS_KEY == "sound_equip_notifications_v1"

Unresolved == 0   \* a log whose resolvedAt is undefined
NoRecipient == "undefined"

Times == 1..MaxTime
\* Outcomes of Math.random().  A notification's id is the clock reading
\* followed by this value: ids made at one clock reading coincide, ids made
\* at different readings differ.
RandVals == {0}
UserIds == {"admin-1", "user-1"}
UserRoles == {"admin", "user"}
EquipmentStatus == {"available", "in_use", "maintenance"}

UserName(uid) == IF uid = "admin-1" THEN "Pr. Carlos (Admin)" ELSE "Joao (Tecnico)"

\* new Date().toISOString() and new Date(s).getTime()
toISOString(t) == [iso |-> t]
getTime(d) == d.iso

INITIAL_DATA ==
  << [id |-> "1", name |-> "Shure SM58", status |-> "available", logs |-> <<>>],
     [id |-> "2", name |-> "Behringer X32", status |-> "in_use", logs |-> <<>>],
     [id |-> "3", name |-> "Cabo XLR 10m", status |-> "maintenance",
      logs |-> << [id |-> "log-1", reportedBy |-> "Usuario Padrao",
                   reportedById |-> "user-1", resolvedAt |-> Unresolved] >>],
     [id |-> "4", name |-> "Yamaha DBR10", status |-> "available", logs |-> <<>>] >>

\* a key of localStorage: absent (getItem returns null) or a JSON array
Absent == [present |-> FALSE, items |-> <<>>]
Stored(items) == [present |-> TRUE, items |-> items]

VARIABLES
  localStorage,   \* key -> Absent or Stored(items)
  initialData,    \* the module-level array INITIAL_DATA (its objects are mutable)
  loaded,         \* the application has rendered the list (its first refreshData returned)
  procs,          \* operations suspended at a delay, between turn A and turn C
  history,        \* the operations started so far, in order of their start
  lastOp,         \* the last call of a notification method, with what it returned
  app             \* the App component's state: user, notifications (as shown)

vars == <<localStorage, initialData, loaded, procs, history, lastOp, app>>

\* ------------------------------------------------------ array helpers
\* items.find(i => i.id === id): index of the first match, 0 when none
find(items, id) ==
  IF \E k \in DOMAIN items : items[k].id = id
  THEN CHOOSE k \in DOMAIN items : items[k].id = id
                                   /\ \A j \in 1..(k - 1) : items[j].id # id
  ELSE 0

\* faulty variant: the filter keeps the record and everything before it goes
RECURSIVE withoutId_fromMatch(_, _)
withoutId_fromMatch(items, id) ==
  IF items = <<>> THEN <<>>
  ELSE IF Head(items).id = id THEN Tail(items)
       ELSE withoutId_fromMatch(Tail(items), id)

\* items.filter(i => i.id !== id)
RECURSIVE withoutId(_, _)
withoutId(items, id) ==
  IF items = <<>> THEN <<>>
  ELSE IF Head(items).id # id THEN <<Head(items)>> \o withoutId(Tail(items), id)
       ELSE withoutId(Tail(items), id)

\* Array.prototype.sort with comparator (a, b) => time(b) - time(a):
\* a stable sort, most recent first
RECURSIVE insertDesc(_, _)
insertDesc(sorted, n) ==
  IF sorted = <<>> THEN <<n>>
  ELSE IF getTime(n.date) - getTime(Head(sorted).date) > 0
       THEN <<n>> \o sorted
       ELSE <<Head(sorted)>> \o insertDesc(Tail(sorted), n)

\* faulty variant: the filtered list is returned as stored, without sorting
sortByDateDesc_unsorted(s) == s

RECURSIVE sortByDateDesc(_)
sortByDateDesc(s) ==
  IF s = <<>> THEN <<>>
  ELSE insertDesc(sortByDateDesc(SubSeq(s, 1, Len(s) - 1)), s[Len(s)])

\* ------------------------------------------------- equipment methods
\* faulty variant: a stored empty array counts as nothing stored
getAll_seedsWhenEmpty(ls, init) ==
  IF ~ls[STORAGE_KEY].present \/ ls[STORAGE_KEY].items = <<>>
  THEN [ls |-> [ls EXCEPT ![STORAGE_KEY] = Stored(init)], items |-> init, alias |-> TRUE]
  ELSE [ls |-> ls, items |-> ls[STORAGE_KEY].items, alias |-> FALSE]

\* getAll after its delay: read the key; seed it when nothing is stored.
\* The seeded call returns INITIAL_DATA itself (alias), the other a parsed copy.
getAll(ls, init) ==
  IF ~ls[STORAGE_KEY].present
  THEN [ls |-> [ls EXCEPT ![STORAGE_KEY] = Stored(init)], items |-> init, alias |-> TRUE]
  ELSE [ls |-> ls, items |-> ls[STORAGE_KEY].items, alias |-> FALSE]

\* faulty variant: save appends without looking for the id
save_alwaysAppend(ls, init, equipment) ==
  LET g == getAll(ls, init)
  IN [g.ls EXCEPT ![STORAGE_KEY] = Stored(Append(g.items, equipment))]

\* faulty variant: the last stored record is not looked at when searching the id
save_missesLast(ls, init, equipment) ==
  LET g == getAll(ls, init)
      exists == find(SubSeq(g.items, 1, Len(g.items) - 1), equipment.id) # 0
      newItems == IF exists
                  THEN [k \in DOMAIN g.items |->
                          IF g.items[k].id = equipment.id THEN equipment ELSE g.items[k]]
                  ELSE Append(g.items, equipment)
  IN [g.ls EXCEPT ![STORAGE_KEY] = Stored(newItems)]

\* save after its delays: getAll's read, replace or append, write
save(ls, init, equipment) ==
  LET g == getAll(ls, init)
      exists == find(g.items, equipment.id) # 0
      newItems == IF exists
                  THEN [k \in DOMAIN g.items |->
                          IF g.items[k].id = equipment.id THEN equipment ELSE g.items[k]]
                  ELSE Append(g.items, equipment)
  IN [g.ls EXCEPT ![STORAGE_KEY] = Stored(newItems)]

\* delete after its delays: getAll's read, filter, write
delete(ls, init, id) ==
  LET g == getAll(ls, init)
      newItems == withoutId(g.items, id)
  IN [g.ls EXCEPT ![STORAGE_KEY] = Stored(newItems)]

\* faulty variant: the new notification replaces the stored ones
createNotification_replaces(ls, data, t, r) ==
  LET newNotification == [id |-> <<t, r>>, date |-> toISOString(t), read |-> FALSE,
                          recipientRole |-> data.recipientRole,
                          recipientUserId |-> data.recipientUserId,
                          message |-> data.message, type |-> data.type,
                          relatedEquipmentId |-> data.relatedEquipmentId]
  IN [ls EXCEPT ![NOTIFICATIONS_KEY] = Stored(<<newNotification>>)]

\* createNotification: prepend a new unread notification
createNotification(ls, data, t, r) ==
  LET allNotifications == IF ls[NOTIFICATIONS_KEY].present
                          THEN ls[NOTIFICATIONS_KEY].items ELSE <<>>
      newNotification == [id |-> <<t, r>>, date |-> toISOString(t), read |-> FALSE,
                          recipientRole |-> data.recipientRole,
                          recipientUserId |-> data.recipientUserId,
                          message |-> data.message, type |-> data.type,
                          relatedEquipmentId |-> data.relatedEquipmentId]
  IN [ls EXCEPT ![NOTIFICATIONS_KEY] = Stored(<<newNotification>> \o allNotifications)]

\* Turn A of toggleStatus / addLog / resolveMaintenance is getAll's read, find,
\* and the in-place mutation of the found item.  When getAll returned
\* INITIAL_DATA itself the mutation lands in INITIAL_DATA and the operation
\* keeps a reference to that object; otherwise it keeps its own parsed copy.
notFound(g, init) == [ls |-> g.ls, init |-> init, found |-> FALSE]

mutated(g, init, k, item) ==
  [ls |-> g.ls,
   init |-> IF g.alias THEN [init EXCEPT ![k] = item] ELSE init,
   found |-> TRUE,
   item |-> [alias |-> g.alias, idx |-> k, val |-> item]]

\* the object an operation's `item` variable refers to, as it is now
deref(item, init) == IF item.alias THEN init[item.idx] ELSE item.val

toggleStatusA(ls, init, id, newStatus) ==
  LET g == getAll(ls, init)
      k == find(g.items, id)
  IN IF k = 0 THEN notFound(g, init)
     ELSE mutated(g, init, k, [g.items[k] EXCEPT !.status = newStatus])

\* faulty variant: addLog pushes the log and forgets the status
addLogA_keepsStatus(ls, init, id, log) ==
  LET g == getAll(ls, init)
      k == find(g.items, id)
  IN IF k = 0 THEN notFound(g, init)
     ELSE mutated(g, init, k, [g.items[k] EXCEPT !.logs = Append(@, log)])

addLogA(ls, init, id, log) ==
  LET g == getAll(ls, init)
      k == find(g.items, id)
  IN IF k = 0 THEN notFound(g, init)
     ELSE mutated(g, init, k, [g.items[k] EXCEPT !.logs = Append(@, log),
                                                 !.status = "maintenance"])

\* faulty variant: the first log is stamped instead of the last
resolveItem_first(i, t) ==
  IF Len(i.logs) > 0
  THEN [i EXCEPT !.status = "available", !.logs[1].resolvedAt = t]
  ELSE [i EXCEPT !.status = "available"]

\* item.status = 'available'; the last log, if any, gets resolvedAt
resolveItem(i, t) ==
  IF Len(i.logs) > 0
  THEN [i EXCEPT !.status = "available",
                 !.logs[Len(i.logs)].resolvedAt = t]
  ELSE [i EXCEPT !.status = "available"]

\* the reportedById captured in turn A
capturedReporter(i) ==
  IF Len(i.logs) > 0 THEN i.logs[Len(i.logs)].reportedById ELSE NoRecipient

resolveMaintenanceA(ls, init, id, t) ==
  LET g == getAll(ls, init)
      k == find(g.items, id)
  IN IF k = 0 THEN notFound(g, init)
     ELSE mutated(g, init, k, resolveItem(g.items[k], t))

\* Turn C of toggleStatus: save(item)
toggleStatusC(ls, init, item) == save(ls, init, deref(item, init))

\* faulty variant: the alert also names the reporter as recipient user
addLogC_alsoUser(ls, init, item, log, t, r) ==
  LET it == deref(item, init)
  IN createNotification(save(ls, init, it),
       [recipientRole |-> "admin", recipientUserId |-> log.reportedById,
        message |-> <<log.reportedBy, "reportou um problema em", it.name>>,
        type |-> "alert", relatedEquipmentId |-> it.id], t, r)

\* Turn C of addLog: save(item), then the alert for the admins
addLogC(ls, init, item, log, t, r) ==
  LET it == deref(item, init)
  IN createNotification(save(ls, init, it),
       [recipientRole |-> "admin", recipientUserId |-> NoRecipient,
        message |-> <<log.reportedBy, "reportou um problema em", it.name>>,
        type |-> "alert", relatedEquipmentId |-> it.id], t, r)

\* Turn C of resolveMaintenance: save(item), then the notification of the
\* reporter captured in turn A (none when the item had no log)
resolveMaintenanceC(ls, init, item, reportedById, t, r) ==
  LET it == deref(item, init)
      saved == save(ls, init, it)
  IN IF reportedById # NoRecipient
     THEN createNotification(saved,
            [recipientRole |-> NoRecipient, recipientUserId |-> reportedById,
             message |-> <<"O equipamento", it.name, "foi reparado">>,
             type |-> "success", relatedEquipmentId |-> it.id], t, r)
     ELSE saved

\* ---------------------------------------------- notification methods
visibleTo(n, userId, role) == (n.recipientRole = role) \/ (n.recipientUserId = userId)

RECURSIVE onlyVisible(_, _, _)
onlyVisible(all, userId, role) ==
  IF all = <<>> THEN <<>>
  ELSE IF visibleTo(Head(all), userId, role)
       THEN <<Head(all)>> \o onlyVisible(Tail(all), userId, role)
       ELSE onlyVisible(Tail(all), userId, role)

getNotifications(ls, userId, role) ==
  LET allNotifications == IF ls[NOTIFICATIONS_KEY].present
                          THEN ls[NOTIFICATIONS_KEY].items ELSE <<>>
  IN sortByDateDesc(onlyVisible(allNotifications, userId, role))

markNotificationRead(ls, notificationId) ==
  IF ~ls[NOTIFICATIONS_KEY].present THEN ls
  ELSE LET allNotifications == ls[NOTIFICATIONS_KEY].items
           updated == [k \in DOMAIN allNotifications |->
                         IF allNotifications[k].id = notificationId
                         THEN [allNotifications[k] EXCEPT !.read = TRUE]
                         ELSE allNotifications[k]]
       IN [ls EXCEPT ![NOTIFICATIONS_KEY] = Stored(updated)]

\* faulty variant: every stored notification is marked read
markAllRead_everyone(ls, userId, role) ==
  IF ~ls[NOTIFICATIONS_KEY].present THEN ls
  ELSE LET allNotifications == ls[NOTIFICATIONS_KEY].items
       IN [ls EXCEPT ![NOTIFICATIONS_KEY] =
             Stored([k \in DOMAIN allNotifications |->
                       [allNotifications[k] EXCEPT !.read = TRUE]])]

markAllRead(ls, userId, role) ==
  IF ~ls[NOTIFICATIONS_KEY].present THEN ls
  ELSE LET allNotifications == ls[NOTIFICATIONS_KEY].items
           updated == [k \in DOMAIN allNotifications |->
                         IF visibleTo(allNotifications[k], userId, role)
                         THEN [allNotifications[k] EXCEPT !.read = TRUE]
                         ELSE allNotifications[k]]
       IN [ls EXCEPT ![NOTIFICATIONS_KEY] = Stored(updated)]

\* ------------------------------------------------------ the callers
\* handleLogin: the two users of the application
Users == { [id |-> "admin-1", name |-> UserName("admin-1"), role |-> "admin"],
           [id |-> "user-1", name |-> UserName("user-1"), role |-> "user"] }

\* useState<User | null>(null): nobody is logged in
NoUser == [id |-> "", name |-> "", role |-> ""]

\* handleReportIssue: the log a user reports
newLog(user) ==
  [id |-> "log-new", reportedBy |-> user.name, reportedById |-> user.id,
   resolvedAt |-> Unresolved]

\* ids delete is called with: "3" is the seed record that has a log, "5" is
\* in no seed record
TargetIds == {"3", "5"}

\* ids the status operations are called with when run one after another: the
\* record is found until delete has removed it
ReportIds == {"3"}

\* every id a record can have
EquipmentIds == {"1", "2", "3", "4", "5"}

\* the records a caller passes to save: record 5, new at first and an edit
\* once it is stored
SaveInputs ==
  { [id |-> "5", name |-> "Novo", status |-> st, logs |-> <<>>] :
      st \in {"in_use", "available"} }

\* the stored notifications
notificationsOf(ls) ==
  IF ls[NOTIFICATIONS_KEY].present THEN ls[NOTIFICATIONS_KEY].items ELSE <<>>

notifications == notificationsOf(localStorage)

\* the collection list() returns (getAll seeds when nothing is stored)
collectionOf(ls, init) == getAll(ls, init).items

collection == collectionOf(localStorage, initialData)

NotifIds == { notifications[k].id : k \in DOMAIN notifications } \cup { <<0, 0>> }

\* -------------------------------------------------------------- state
Init ==
  /\ localStorage = [k \in {STORAGE_KEY, NOTIFICATIONS_KEY} |-> Absent]
  /\ initialData = INITIAL_DATA
  /\ loaded = FALSE
  /\ procs = {}
  /\ history = <<>>
  /\ lastOp = [op |-> "none"]
  /\ app = [user |-> NoUser, notifications |-> <<>>]

\* ----------------------------------- operations run without overlap
\* The application calls getAll first (refreshData on login) and offers the
\* other equipment operations only on the list it has rendered.
GetAll ==
  /\ procs = {}
  /\ localStorage' = getAll(localStorage, initialData).ls
  /\ loaded' = TRUE
  /\ UNCHANGED <<initialData, procs, history, lastOp, app>>

SaveOf(e) ==
  /\ procs = {} /\ loaded
  /\ localStorage' = save(localStorage, initialData, e)
  /\ UNCHANGED <<initialData, loaded, procs, history, lastOp, app>>

Save == \E e \in SaveInputs : SaveOf(e)

DeleteOf(id) ==
  /\ procs = {} /\ loaded
  /\ localStorage' = delete(localStorage, initialData, id)
  /\ UNCHANGED <<initialData, loaded, procs, history, lastOp, app>>

Delete == \E id \in TargetIds : DeleteOf(id)

\* toggleStatus run alone: turn A, then turn C with nothing in between
toggleStatus(ls, init, id, newStatus) ==
  LET a == toggleStatusA(ls, init, id, newStatus)
  IN [ls |-> IF a.found THEN toggleStatusC(a.ls, a.init, a.item) ELSE a.ls,
      init |-> a.init, returnsItem |-> a.found]

ToggleStatusOf(id, newStatus) ==
  /\ procs = {} /\ loaded
  /\ LET done == toggleStatus(localStorage, initialData, id, newStatus)
     IN initialData' = done.init /\ localStorage' = done.ls
  /\ UNCHANGED <<loaded, procs, history, lastOp, app>>

ToggleStatus == \E id \in ReportIds, newStatus \in EquipmentStatus : ToggleStatusOf(id, newStatus)

\* faulty variant: the alert is sent whether or not the item was found
addLog_alwaysNotifies(ls, init, id, log, t, r) ==
  LET a == addLogA(ls, init, id, log)
  IN [ls |-> IF a.found THEN addLogC(a.ls, a.init, a.item, log, t, r)
             ELSE createNotification(a.ls,
                    [recipientRole |-> "admin", recipientUserId |-> NoRecipient,
                     message |-> <<log.reportedBy, "reportou um problema em", id>>,
                     type |-> "alert", relatedEquipmentId |-> id], t, r),
      init |-> a.init, returnsItem |-> a.found]

\* addLog run alone; t, r: the clock reading and the random value
\* createNotification draws.  returnsItem: the call returns the item, not
\* undefined
addLog(ls, init, id, log, t, r) ==
  LET a == addLogA(ls, init, id, log)
  IN [ls |-> IF a.found THEN addLogC(a.ls, a.init, a.item, log, t, r) ELSE a.ls,
      init |-> a.init, returnsItem |-> a.found]

AddLogOf(id, log, t, r) ==
  /\ procs = {} /\ loaded
  /\ Len(notifications) < MaxNotifs
  /\ LET done == addLog(localStorage, initialData, id, log, t, r)
     IN initialData' = done.init /\ localStorage' = done.ls
  /\ UNCHANGED <<loaded, procs, history, lastOp, app>>

AddLog == \E id \in ReportIds, user \in Users, t \in Times, r \in RandVals :
            AddLogOf(id, newLog(user), t, r)

\* resolveMaintenance run alone; t: the clock reading resolvedAt gets;
\* t2, r: those of createNotification
resolveMaintenance(ls, init, id, t, t2, r) ==
  LET a == resolveMaintenanceA(ls, init, id, t)
  IN [ls |-> IF a.found
             THEN resolveMaintenanceC(a.ls, a.init, a.item,
                                      capturedReporter(deref(a.item, a.init)), t2, r)
             ELSE a.ls,
      init |-> a.init, returnsItem |-> a.found]

ResolveMaintenanceOf(id, t, t2, r) ==
  /\ procs = {} /\ loaded
  /\ Len(notifications) < MaxNotifs
  /\ LET done == resolveMaintenance(localStorage, initialData, id, t, t2, r)
     IN initialData' = done.init /\ localStorage' = done.ls
  /\ UNCHANGED <<loaded, procs, history, lastOp, app>>

ResolveMaintenance == \E id \in ReportIds, t \in Times, t2 \in Times, r \in RandVals :
                        ResolveMaintenanceOf(id, t, t2, r)

\* ------------------------------------------ the notification methods
\* a caller's data for createNotification: a role, a user, or both as recipient
NotificationData ==
  { [recipientRole |-> rr, recipientUserId |-> ru, message |-> <<"m">>,
     type |-> "alert", relatedEquipmentId |-> "3"] :
    rr \in {"admin", NoRecipient}, ru \in {"user-1", NoRecipient} }

CreateNotification ==
  \E data \in NotificationData, t \in Times, r \in RandVals :
    /\ procs = {}
    /\ Len(notifications) < MaxNotifs
    /\ localStorage' = createNotification(localStorage, data, t, r)
    /\ lastOp' = [op |-> "createNotification"]
    /\ UNCHANGED <<initialData, loaded, procs, history, app>>

GetNotifications ==
  \E userId \in UserIds, role \in UserRoles :
    /\ procs = {}
    /\ lastOp' = [op |-> "getNotifications", userId |-> userId, role |-> role,
                  ret |-> getNotifications(localStorage, userId, role)]
    /\ UNCHANGED <<localStorage, initialData, loaded, procs, history, app>>

MarkNotificationRead ==
  \E notificationId \in NotifIds :
    /\ procs = {}
    /\ localStorage' = markNotificationRead(localStorage, notificationId)
    /\ lastOp' = [op |-> "markNotificationRead", notificationId |-> notificationId]
    /\ UNCHANGED <<initialData, loaded, procs, history, app>>

MarkAllReadOf(userId, role) ==
  /\ procs = {}
  /\ localStorage' = markAllRead(localStorage, userId, role)
  /\ lastOp' = [op |-> "markAllRead", userId |-> userId, role |-> role]
  /\ UNCHANGED <<initialData, loaded, procs, history, app>>

MarkAllRead == \E userId \in UserIds, role \in UserRoles : MarkAllReadOf(userId, role)

\* the equipment operations, one after another
Next ==
  \/ GetAll \/ Save \/ Delete \/ ToggleStatus \/ AddLog \/ ResolveMaintenance

Spec == Init /\ [][Next]_vars

\* the notification methods, one after another
NextNotif ==
  \/ CreateNotification \/ GetNotifications \/ MarkNotificationRead \/ MarkAllRead

SpecNotif == Init /\ [][NextNotif]_vars

\* ------------------------------------------- every record deleted
\* delete called with the id of any record, the seed records included
DeleteAny == \E id \in EquipmentIds : DeleteOf(id)

NextEmpty == Next \/ DeleteAny

SpecEmpty == Init /\ [][NextEmpty]_vars

\* ------------------------------------------- the store emptied outside
\* localStorage belongs to the browser, not to the application: another page
\* of the origin, or the user, can remove the equipment key while the
\* application runs.
ClearStorage ==
  /\ procs = {}
  /\ localStorage[STORAGE_KEY].present
  /\ localStorage' = [localStorage EXCEPT ![STORAGE_KEY] = Absent]
  /\ UNCHANGED <<initialData, loaded, procs, history, lastOp, app>>

NextClear == Next \/ ClearStorage

SpecClear == Init /\ [][NextClear]_vars

\* ------------------------------------- operations that overlap in time
\* Each action is one turn of one operation.  setTimeout promises a minimum
\* delay only, so the turns of different operations may come in any order.
\* An operation enters `history` at its first turn; toggleStatus, addLog and
\* resolveMaintenance wait in `procs` between their turn A and their turn C.
started(call) == history' = Append(history, call)

ConcGetAll ==
  /\ Len(history) < MaxOps
  /\ localStorage' = getAll(localStorage, initialData).ls
  /\ loaded' = TRUE
  /\ started([op |-> "getAll"])
  /\ UNCHANGED <<initialData, procs, lastOp, app>>

ConcSave ==
  \E e \in SaveInputs :
    /\ Len(history) < MaxOps /\ loaded
    /\ localStorage' = save(localStorage, initialData, e)
    /\ started([op |-> "save", equipment |-> e])
    /\ UNCHANGED <<initialData, loaded, procs, lastOp, app>>

ConcDelete ==
  \E id \in TargetIds :
    /\ Len(history) < MaxOps /\ loaded
    /\ localStorage' = delete(localStorage, initialData, id)
    /\ started([op |-> "delete", id |-> id])
    /\ UNCHANGED <<initialData, loaded, procs, lastOp, app>>

\* turn A: what it leaves in the store, in INITIAL_DATA and in procs
turnA(a, waiting) ==
  /\ localStorage' = a.ls
  /\ initialData' = a.init
  /\ procs' = IF a.found THEN procs \cup {waiting} ELSE procs

StartToggleStatus ==
  \E id \in TargetIds, newStatus \in EquipmentStatus :
    /\ Len(history) < MaxOps /\ loaded
    /\ LET a == toggleStatusA(localStorage, initialData, id, newStatus)
       IN turnA(a, [n |-> Len(history) + 1, op |-> "toggleStatus", item |-> a.item])
    /\ started([op |-> "toggleStatus", id |-> id, newStatus |-> newStatus])
    /\ UNCHANGED <<loaded, lastOp, app>>

FinishToggleStatus ==
  \E p \in procs :
    /\ p.op = "toggleStatus"
    /\ localStorage' = toggleStatusC(localStorage, initialData, p.item)
    /\ procs' = procs \ {p}
    /\ UNCHANGED <<initialData, loaded, history, lastOp, app>>

StartAddLog ==
  \E id \in TargetIds, user \in Users :
    /\ Len(history) < MaxOps /\ loaded
    /\ LET a == addLogA(localStorage, initialData, id, newLog(user))
       IN turnA(a, [n |-> Len(history) + 1, op |-> "addLog", item |-> a.item,
                    log |-> newLog(user)])
    /\ started([op |-> "addLog", id |-> id, log |-> newLog(user)])
    /\ UNCHANGED <<loaded, lastOp, app>>

FinishAddLog ==
  \E p \in procs, t \in Times, r \in RandVals :
    /\ p.op = "addLog"
    /\ localStorage' = addLogC(localStorage, initialData, p.item, p.log, t, r)
    /\ procs' = procs \ {p}
    /\ UNCHANGED <<initialData, loaded, history, lastOp, app>>

StartResolveMaintenance ==
  \E id \in TargetIds, t \in Times :
    /\ Len(history) < MaxOps /\ loaded
    /\ LET a == resolveMaintenanceA(localStorage, initialData, id, t)
       IN turnA(a, [n |-> Len(history) + 1, op |-> "resolveMaintenance", item |-> a.item,
                    reportedById |-> capturedReporter(deref(a.item, a.init))])
    /\ started([op |-> "resolveMaintenance", id |-> id, t |-> t])
    /\ UNCHANGED <<loaded, lastOp, app>>

FinishResolveMaintenance ==
  \E p \in procs, t2 \in Times, r \in RandVals :
    /\ p.op = "resolveMaintenance"
    /\ localStorage' = resolveMaintenanceC(localStorage, initialData, p.item,
                                           p.reportedById, t2, r)
    /\ procs' = procs \ {p}
    /\ UNCHANGED <<initialData, loaded, history, lastOp, app>>

NextConc ==
  \/ ConcGetAll \/ ConcSave \/ ConcDelete
  \/ StartToggleStatus \/ FinishToggleStatus
  \/ StartAddLog \/ FinishAddLog
  \/ StartResolveMaintenance \/ FinishResolveMaintenance

SpecConc == Init /\ [][NextConc]_vars

\* ------------------------------------ the two writes of a last turn
\* Turn C of addLog and of resolveMaintenance writes twice: save's setItem,
\* then createNotification's.  No other operation runs between the two (the
\* continuation after `await save` is a microtask), but the store is in the
\* state between them once.  Here the two writes are separate steps.

\* faulty variant: the item is not written before the alert is sent
addLogWrite_skipped(ls, init, item) == ls

\* addLog, `await storageService.save(item)`
addLogWrite(ls, init, item) == save(ls, init, deref(item, init))

\* addLog, `await storageService.createNotification({...})`
addLogNotify(ls, init, item, log, t, r) ==
  LET it == deref(item, init)
  IN createNotification(ls,
       [recipientRole |-> "admin", recipientUserId |-> NoRecipient,
        message |-> <<log.reportedBy, "reportou um problema em", it.name>>,
        type |-> "alert", relatedEquipmentId |-> it.id], t, r)

\* resolveMaintenance, `await storageService.save(item)`
resolveWrite(ls, init, item) == save(ls, init, deref(item, init))

\* resolveMaintenance, `await storageService.createNotification({...})`
resolveNotify(ls, init, item, reportedById, t, r) ==
  LET it == deref(item, init)
  IN createNotification(ls,
       [recipientRole |-> NoRecipient, recipientUserId |-> reportedById,
        message |-> <<"O equipamento", it.name, "foi reparado">>,
        type |-> "success", relatedEquipmentId |-> it.id], t, r)

\* an operation is between its two writes
midTurn == \E p \in procs : p.op \in {"addLogWritten", "resolveWritten"}

WriteAddLog ==
  \E p \in procs :
    /\ p.op = "addLog"
    /\ localStorage' = addLogWrite(localStorage, initialData, p.item)
    /\ procs' = (procs \ {p}) \cup {[p EXCEPT !.op = "addLogWritten"]}
    /\ UNCHANGED <<initialData, loaded, history, lastOp, app>>

NotifyAddLog ==
  \E p \in procs, t \in Times, r \in RandVals :
    /\ p.op = "addLogWritten"
    /\ localStorage' = addLogNotify(localStorage, initialData, p.item, p.log, t, r)
    /\ procs' = procs \ {p}
    /\ UNCHANGED <<initialData, loaded, history, lastOp, app>>

WriteResolve ==
  \E p \in procs :
    /\ p.op = "resolveMaintenance"
    /\ localStorage' = resolveWrite(localStorage, initialData, p.item)
    /\ procs' = IF p.reportedById # NoRecipient
                THEN (procs \ {p}) \cup {[p EXCEPT !.op = "resolveWritten"]}
                ELSE procs \ {p}
    /\ UNCHANGED <<initialData, loaded, history, lastOp, app>>

NotifyResolve ==
  \E p \in procs, t2 \in Times, r \in RandVals :
    /\ p.op = "resolveWritten"
    /\ localStorage' = resolveNotify(localStorage, initialData, p.item,
                                      p.reportedById, t2, r)
    /\ procs' = procs \ {p}
    /\ UNCHANGED <<initialData, loaded, history, lastOp, app>>

\* a new operation may take its first turn
canStart == ~midTurn /\ Len(history) < MaxStepOps

NextSteps ==
  \/ canStart /\ ConcGetAll
  \/ canStart /\ ConcDelete
  \/ canStart /\ StartAddLog
  \/ ~midTurn /\ WriteAddLog
  \/ NotifyAddLog
  \/ canStart /\ StartResolveMaintenance
  \/ ~midTurn /\ WriteResolve
  \/ NotifyResolve

SpecSteps == Init /\ [][NextSteps]_vars

\* ------------------------------------------------ the App component
\* refreshData suspends once, at getAll's delay; `user` in it is the user of
\* the render that created the function.  A refreshData in flight waits in
\* procs with that user.
refreshing(user) == [op |-> "refreshData", user |-> user]

\* handleLogin, and the effect on [user]: setUser, then refreshData()
HandleLogin ==
  \E user \in Users :
    /\ app.user = NoUser
    /\ app' = [app EXCEPT !.user = user]
    /\ procs' = procs \cup {refreshing(user)}
    /\ UNCHANGED <<localStorage, initialData, loaded, history, lastOp>>

\* onLogout: setUser(null); the effect's cleanup stops the interval, not a
\* refreshData already in flight
Logout ==
  /\ app.user # NoUser
  /\ app' = [app EXCEPT !.user = NoUser]
  /\ UNCHANGED <<localStorage, initialData, loaded, procs, history, lastOp>>

\* setInterval(refreshData, 5000) while a user is logged in
Poll ==
  /\ app.user # NoUser
  /\ procs' = procs \cup {refreshing(app.user)}
  /\ UNCHANGED <<localStorage, initialData, loaded, history, lastOp, app>>

\* refreshData after getAll's delay: setEquipment, getNotifications for its
\* own user, setNotifications
FinishRefresh ==
  \E p \in procs :
    /\ p.op = "refreshData"
    /\ LET g == getAll(localStorage, initialData)
       IN /\ localStorage' = g.ls
          /\ app' = [app EXCEPT !.notifications =
                                  getNotifications(g.ls, p.user.id, p.user.role)]
    /\ loaded' = TRUE
    /\ procs' = procs \ {p}
    /\ UNCHANGED <<initialData, history, lastOp>>

\* handleReportIssue on a listed item: addLog run to its end, then refreshData()
HandleReportIssue ==
  \E id \in ReportIds, t \in Times, r \in RandVals :
    /\ app.user # NoUser /\ loaded
    /\ Len(notifications) < MaxNotifs
    /\ LET done == addLog(localStorage, initialData, id, newLog(app.user), t, r)
       IN initialData' = done.init /\ localStorage' = done.ls
    /\ procs' = procs \cup {refreshing(app.user)}
    /\ UNCHANGED <<loaded, history, lastOp, app>>

\* handleMarkAllRead: markAllRead, getNotifications, setNotifications
HandleMarkAllRead ==
  /\ app.user # NoUser
  /\ LET ls == markAllRead(localStorage, app.user.id, app.user.role)
     IN /\ localStorage' = ls
        /\ app' = [app EXCEPT !.notifications =
                                getNotifications(ls, app.user.id, app.user.role)]
  /\ UNCHANGED <<initialData, loaded, procs, history, lastOp>>

NextApp ==
  \/ HandleLogin \/ Logout \/ Poll \/ FinishRefresh
  \/ HandleReportIssue \/ HandleMarkAllRead

SpecApp == Init /\ [][NextApp]_vars

\* ------------------------------------------------ one after another
\* a call of `history` run alone on the store st = [ls, init].  The clock
\* reading and random value of createNotification are fixed here: the
\* equipment key does not depend on them.
runAlone(st, call) ==
  CASE call.op = "getAll" -> [ls |-> getAll(st.ls, st.init).ls, init |-> st.init]
    [] call.op = "save" -> [ls |-> save(st.ls, st.init, call.equipment), init |-> st.init]
    [] call.op = "delete" -> [ls |-> delete(st.ls, st.init, call.id), init |-> st.init]
    [] call.op = "toggleStatus" -> toggleStatus(st.ls, st.init, call.id, call.newStatus)
    [] call.op = "addLog" -> addLog(st.ls, st.init, call.id, call.log, 1, 0)
    [] call.op = "resolveMaintenance" ->
         resolveMaintenance(st.ls, st.init, call.id, call.t, 1, 0)

RECURSIVE runInOrder(_, _)
runInOrder(st, calls) ==
  IF calls = <<>> THEN st
  ELSE runInOrder(runAlone(st, Head(calls)), Tail(calls))

\* the store before any call
emptyStore ==
  [ls |-> [k \in {STORAGE_KEY, NOTIFICATIONS_KEY} |-> Absent], init |-> INITIAL_DATA]

\* the equipment keys the calls of `history` leave when run one after
\* another, in every order
serialOutcomes ==
  { runInOrder(emptyStore, [i \in DOMAIN history |-> history[f[i]]]).ls[STORAGE_KEY] :
      f \in Permutations(DOMAIN history) }

\* =============================================================== claims
removeAt(seq, p) == SubSeq(seq, 1, p - 1) \o SubSeq(seq, p + 1, Len(seq))

lastLog(item) == item.logs[Len(item.logs)]

hasUnresolvedLog(item) ==
  \E j \in DOMAIN item.logs : item.logs[j].resolvedAt = Unresolved

\* the logs of the record with this id after an operation returned `done`
logsAfter(done, id) ==
  LET after == collectionOf(done.ls, done.init)
      k2 == find(after, id)
  IN IF k2 = 0 THEN <<>> ELSE after[k2].logs

\* C1: addLog of an id in the collection, run alone, leaves that item with
\* status maintenance and its logs one longer with the given log last, and the
\* notifications with exactly one new entry: unread, for the role admin,
\* about that equipment id.
C1_ReportIssue ==
  \A id \in EquipmentIds, user \in Users, t \in Times, r \in RandVals :
    find(collection, id) # 0 =>
      LET old == collection[find(collection, id)]
          done == addLog(localStorage, initialData, id, newLog(user), t, r)
          after == collectionOf(done.ls, done.init)
          notifsAfter == notificationsOf(done.ls)
          k2 == find(after, id)
      IN /\ k2 # 0
         /\ after[k2].status = "maintenance"
         /\ Len(after[k2].logs) = Len(old.logs) + 1
         /\ lastLog(after[k2]) = newLog(user)
         /\ Len(notifsAfter) = Len(notifications) + 1
         /\ \E p \in DOMAIN notifsAfter :
              /\ removeAt(notifsAfter, p) = notifications
              /\ notifsAfter[p].read = FALSE
              /\ notifsAfter[p].recipientRole = "admin"
              /\ notifsAfter[p].relatedEquipmentId = id

\* a state addLog has produced: an item in maintenance whose last log is a
\* reported one, and the newest notification is the unread admin alert about it
C1_Witness ==
  \E k \in DOMAIN collection :
    /\ Len(collection[k].logs) > 1
    /\ collection[k].status = "maintenance"
    /\ lastLog(collection[k]) = newLog(CHOOSE u \in Users : u.role = "user")
    /\ Len(notifications) > 0
    /\ notifications[1].type = "alert"
    /\ notifications[1].recipientRole = "admin"
    /\ notifications[1].relatedEquipmentId = collection[k].id
    /\ ~notifications[1].read

\* C2: resolveMaintenance of an item with at least one unresolved log, run
\* alone, sets its status to available, puts a resolution timestamp on its
\* last log, leaves every other log as it was, and adds exactly one unread
\* notification whose recipient user is the reporter of that last log.
C2_Resolve ==
  \A id \in EquipmentIds, t \in Times, t2 \in Times, r \in RandVals :
    (find(collection, id) # 0 /\ hasUnresolvedLog(collection[find(collection, id)])) =>
      LET old == collection[find(collection, id)]
          done == resolveMaintenance(localStorage, initialData, id, t, t2, r)
          after == collectionOf(done.ls, done.init)
          notifsAfter == notificationsOf(done.ls)
          k2 == find(after, id)
          n == Len(old.logs)
      IN /\ k2 # 0
         /\ after[k2].status = "available"
         /\ Len(after[k2].logs) = n
         /\ after[k2].logs[n].resolvedAt # Unresolved
         /\ \A j \in 1..(n - 1) : after[k2].logs[j] = old.logs[j]
         /\ \E p \in DOMAIN notifsAfter :
              /\ removeAt(notifsAfter, p) = notifications
              /\ notifsAfter[p].read = FALSE
              /\ notifsAfter[p].recipientUserId = old.logs[n].reportedById

\* a state resolveMaintenance has produced on an item with two logs of
\* different reporters: available, last log stamped, the reporter of the last
\* log notified, the earlier log still unresolved
C2_Witness ==
  \E k \in DOMAIN collection :
    /\ Len(collection[k].logs) = 2
    /\ collection[k].status = "available"
    /\ collection[k].logs[1].resolvedAt = Unresolved
    /\ collection[k].logs[2].resolvedAt # Unresolved
    /\ collection[k].logs[1].reportedById # collection[k].logs[2].reportedById
    /\ Len(notifications) > 0
    /\ notifications[1].type = "success"
    /\ notifications[1].recipientUserId = collection[k].logs[2].reportedById
    /\ ~notifications[1].read

\* C3: every equipment item whose most recent log has no resolution
\* timestamp has status maintenance.
C3_UnresolvedIsMaintenance ==
  \A k \in DOMAIN collection :
    (Len(collection[k].logs) > 0 /\ lastLog(collection[k]).resolvedAt = Unresolved)
      => collection[k].status = "maintenance"

\* C5: once a log carries a resolution timestamp, no toggleStatus, addLog or
\* resolveMaintenance on its item changes that timestamp or any other field of
\* the log, and a resolveMaintenance of an item whose last log is already
\* resolved resolves nothing anew (writes no timestamp, notifies nobody).
C5_ResolvedOnce ==
  \A k \in DOMAIN collection : \A j \in DOMAIN collection[k].logs :
    LET id == collection[k].id
        log == collection[k].logs[j]
        kept(done) == j \in DOMAIN logsAfter(done, id) /\ logsAfter(done, id)[j] = log
    IN log.resolvedAt # Unresolved =>
         /\ \A newStatus \in EquipmentStatus :
              kept(toggleStatus(localStorage, initialData, id, newStatus))
         /\ \A user \in Users, t \in Times, r \in RandVals :
              kept(addLog(localStorage, initialData, id, newLog(user), t, r))
         /\ \A t \in Times, t2 \in Times, r \in RandVals :
              LET done == resolveMaintenance(localStorage, initialData, id, t, t2, r)
              IN /\ kept(done)
                 /\ j = Len(collection[k].logs) =>
                      notificationsOf(done.ls) = notifications

C9_Delete ==
  \A id \in EquipmentIds :
    LET k == find(collection, id)
        after == delete(localStorage, initialData, id)[STORAGE_KEY]
    IN IF k # 0
       THEN after = Stored(removeAt(collection, k))
       ELSE after = Stored(collection)

\* a state delete has produced: seed record 3 is gone, its neighbours remain
C9_Witness ==
  /\ localStorage[STORAGE_KEY].present
  /\ find(collection, "3") = 0
  /\ find(collection, "2") = 2
  /\ find(collection, "4") = 3

\* how often n occurs in seq
count(seq, n) == Cardinality({ p \in DOMAIN seq : seq[p] = n })

\* C6: getNotifications(userId, role) returns exactly the stored notifications
\* whose recipient role is the role or whose recipient user is the user, no
\* notification before one with a later creation date, and leaves the stored
\* collection as it was.
C6_List ==
  [][lastOp'.op = "getNotifications" =>
       LET ret == lastOp'.ret
           all == notifications
       IN /\ localStorage' = localStorage
          /\ \A p \in DOMAIN all :
               count(ret, all[p]) =
                 IF all[p].recipientRole = lastOp'.role
                    \/ all[p].recipientUserId = lastOp'.userId
                 THEN count(all, all[p]) ELSE 0
          /\ \A p \in DOMAIN ret : count(all, ret[p]) > 0
          /\ \A p \in DOMAIN ret : \A q \in DOMAIN ret :
               p < q => getTime(ret[p].date) >= getTime(ret[q].date)
    ]_vars

\* getNotifications has returned two stored notifications, the later one
\* first, which the store holds in the other order
C6_Witness ==
  /\ lastOp.op = "getNotifications"
  /\ Len(lastOp.ret) = 2
  /\ Len(notifications) = 2
  /\ lastOp.ret[1] = notifications[2]
  /\ getTime(lastOp.ret[1].date) > getTime(lastOp.ret[2].date)

\* C7: markAllRead(userId, role) sets read on exactly the notifications
\* getNotifications(userId, role) returns; the others keep their read flag, and
\* the length, the order and every other field stay as they were.
C7_MarkAllRead ==
  [][lastOp'.op = "markAllRead" =>
       /\ Len(notifications') = Len(notifications)
       /\ \A p \in DOMAIN notifications :
            notifications'[p] =
              IF count(getNotifications(localStorage, lastOp'.userId, lastOp'.role),
                       notifications[p]) > 0
              THEN [notifications[p] EXCEPT !.read = TRUE]
              ELSE notifications[p]
    ]_vars

\* markAllRead has run for a caller who sees one of two stored notifications:
\* that one is read, the other is still unread
C7_Witness ==
  /\ lastOp.op = "markAllRead"
  /\ Len(notifications) = 2
  /\ \E p \in 1..2 :
       /\ notifications[p].read
       /\ count(getNotifications(localStorage, lastOp.userId, lastOp.role),
                notifications[p]) > 0
       /\ ~notifications[3 - p].read
       /\ count(getNotifications(localStorage, lastOp.userId, lastOp.role),
                notifications[3 - p]) = 0

\* C10: whenever getAll runs while no equipment data is persisted, it persists
\* and returns exactly the four seed records, whatever ran before; when data
\* is persisted it returns that data.
C10_SeedsFixed ==
  LET g == getAll(localStorage, initialData)
  IN IF ~localStorage[STORAGE_KEY].present
     THEN g.items = INITIAL_DATA /\ g.ls[STORAGE_KEY] = Stored(INITIAL_DATA)
     ELSE g.items = localStorage[STORAGE_KEY].items /\ g.ls = localStorage

\* an operation that returned `done` left the collection and the
\* notifications as they were and returned undefined
silentNoOp(done) ==
  /\ ~done.returnsItem
  /\ collectionOf(done.ls, done.init) = collection
  /\ notificationsOf(done.ls) = notifications
  /\ done.init = initialData

\* C11: toggleStatus, addLog and resolveMaintenance called with an id that is
\* not in the collection return undefined, leave the collection list()
\* returns as it was and create no notification.
C11_AbsentIsNoOp ==
  \A id \in EquipmentIds :
    find(collection, id) = 0 =>
      /\ \A newStatus \in EquipmentStatus :
           silentNoOp(toggleStatus(localStorage, initialData, id, newStatus))
      /\ \A user \in Users, t \in Times, r \in RandVals :
           silentNoOp(addLog(localStorage, initialData, id, newLog(user), t, r))
      /\ \A t \in Times, t2 \in Times, r \in RandVals :
           silentNoOp(resolveMaintenance(localStorage, initialData, id, t, t2, r))

\* record 3 has been reported, notified about and then deleted: the status
\* operations of the application now run on an id that is not in the collection
C11_Witness ==
  /\ localStorage[STORAGE_KEY].present
  /\ \E id \in ReportIds :
       /\ find(collection, id) = 0
       /\ \E p \in DOMAIN notifications : notifications[p].relatedEquipmentId = id

\* the store `ls` still holds every notification stored now, in order, with
\* the same id, date, message, type and recipients, and none that was read is
\* unread in it
notificationsKept(ls) ==
  LET after == notificationsOf(ls)
      d == Len(after) - Len(notifications)
  IN /\ d >= 0
     /\ \A p \in DOMAIN notifications :
          /\ after[p + d] = [notifications[p] EXCEPT !.read = after[p + d].read]
          /\ notifications[p].read => after[p + d].read

\* C12: no method of the store removes a notification or changes anything of
\* it but its read flag: whatever is stored, each method keeps every stored
\* notification with the same id, date, message, type and recipients, does
\* not make the collection shorter, and leaves a true read flag true.
\* (resolveMaintenance reads the clock twice; the first reading goes into the
\* log only, so both readings are taken equal here.)
C12_NotificationsKept ==
  /\ notificationsKept(getAll(localStorage, initialData).ls)
  /\ \A e \in SaveInputs : notificationsKept(save(localStorage, initialData, e))
  /\ \A id \in TargetIds :
       /\ notificationsKept(delete(localStorage, initialData, id))
       /\ \A newStatus \in EquipmentStatus :
            notificationsKept(toggleStatus(localStorage, initialData, id, newStatus).ls)
       /\ \A user \in Users, t \in Times, r \in RandVals :
            notificationsKept(addLog(localStorage, initialData, id, newLog(user), t, r).ls)
       /\ \A t \in Times, r \in RandVals :
            notificationsKept(resolveMaintenance(localStorage, initialData, id, t, t, r).ls)
  /\ \A data \in NotificationData, t \in Times, r \in RandVals :
       notificationsKept(createNotification(localStorage, data, t, r))
  /\ \A notificationId \in NotifIds :
       notificationsKept(markNotificationRead(localStorage, notificationId))
  /\ \A userId \in UserIds, role \in UserRoles :
       notificationsKept(markAllRead(localStorage, userId, role))

\* a notification was read and another one created after it: the older one is
\* still stored and still read, the newer one is unread
C12_Witness ==
  /\ Len(notifications) = 2
  /\ notifications[2].read
  /\ ~notifications[1].read
  /\ getTime(notifications[1].date) < getTime(notifications[2].date)

\* C13: every notification addLog or resolveMaintenance has produced names
\* exactly one kind of recipient: an alert of a report carries the role admin
\* and no user id, the success notification of a resolve carries the user id
\* of a reporter and no role.
C13_OneRecipient ==
  \A p \in DOMAIN notifications :
    LET n == notifications[p]
    IN /\ (n.recipientRole = NoRecipient) # (n.recipientUserId = NoRecipient)
       /\ n.type = "alert" =>
            n.recipientRole = "admin" /\ n.recipientUserId = NoRecipient
       /\ n.type = "success" =>
            n.recipientRole = NoRecipient /\ n.recipientUserId \in UserIds

\* a report by the admin and its resolve have both notified: the alert goes
\* to the role, the success notification to the admin as reporter
C13_Witness ==
  /\ Len(notifications) = 2
  /\ notifications[2].type = "alert"
  /\ notifications[1].type = "success"
  /\ notifications[1].recipientUserId = "admin-1"

\* the persisted collection holds the equipment change notification n tells of
persistedBefore(n) ==
  /\ localStorage[STORAGE_KEY].present
  /\ LET items == localStorage[STORAGE_KEY].items
         k == find(items, n.relatedEquipmentId)
     IN /\ k # 0
        /\ Len(items[k].logs) > 0
        /\ n.type = "alert" =>
             /\ items[k].status = "maintenance"
             /\ lastLog(items[k]).reportedBy = n.message[1]
             /\ lastLog(items[k]).resolvedAt = Unresolved
        /\ n.type = "success" =>
             /\ items[k].status = "available"
             /\ lastLog(items[k]).resolvedAt # Unresolved
             /\ lastLog(items[k]).reportedById = n.recipientUserId

\* C14: addLog and resolveMaintenance persist the equipment change before
\* they notify: in the state a notification is created from, intermediate
\* states of operations in flight included, the persisted collection already
\* holds the item with the reported log and status maintenance (for an
\* alert), or the resolved item (for a success notification).
C14_PersistThenNotify ==
  [][Len(notifications') > Len(notifications) => persistedBefore(notifications'[1])]_vars

\* an alert has been sent, and a resolve is between its write and its
\* notification: the item is persisted as available, the reporter not yet told
C14_Witness ==
  /\ Len(notifications) = 1
  /\ notifications[1].type = "alert"
  /\ \E p \in procs :
       /\ p.op = "resolveWritten"
       /\ LET k == find(collection, deref(p.item, initialData).id)
          IN k # 0 /\ collection[k].status = "available"

\* the alerts sent for reports of this user on this id: one per completed addLog
alertsOf(id, user) ==
  Cardinality({ p \in DOMAIN notifications :
                  /\ notifications[p].type = "alert"
                  /\ notifications[p].relatedEquipmentId = id
                  /\ notifications[p].message[1] = user.name })

\* C15: a completed addLog's log stays in the persisted logs of its item: as
\* long as only toggleStatus, addLog and resolveMaintenance have been called
\* (no delete, no save by a caller), under every interleaving, the item holds
\* at least as many logs of a reporter as addLog calls of that reporter on it
\* have completed.
C15_ReportKept ==
  (\A i \in DOMAIN history : history[i].op \notin {"delete", "save"}) =>
    \A id \in TargetIds, user \in Users :
      alertsOf(id, user) > 0 =>
        LET k == find(collection, id)
        IN /\ k # 0
           /\ Cardinality({ j \in DOMAIN collection[k].logs :
                              collection[k].logs[j].reportedBy = user.name })
                >= alertsOf(id, user)

\* C16: once delete(id) has run, list() returns no record with that id unless
\* a caller has called save with that id afterwards; an operation on the id
\* that was in flight when delete ran does not bring the record back.
C16_DeletedStaysGone ==
  \A i \in DOMAIN history :
    (/\ history[i].op = "delete"
     /\ \A j \in DOMAIN history :
          (j > i /\ history[j].op = "save") => history[j].equipment.id # history[i].id)
      => find(collection, history[i].id) = 0

\* C17: resolveMaintenance of an item, run alone, leaves none of the item's
\* logs without a resolution timestamp, however many issues were reported on
\* it before.
C17_AllResolved ==
  \A id \in EquipmentIds, t \in Times, t2 \in Times, r \in RandVals :
    find(collection, id) # 0 =>
      LET logs == logsAfter(resolveMaintenance(localStorage, initialData, id, t, t2, r), id)
      IN \A j \in DOMAIN logs : logs[j].resolvedAt # Unresolved

\* C18: under every interleaving of save, delete, toggleStatus, addLog and
\* resolveMaintenance, no two records of the persisted equipment collection
\* have the same id.
C18_DistinctIds ==
  LET items == localStorage[STORAGE_KEY].items
  IN \A j \in DOMAIN items : \A k \in DOMAIN items :
       items[j].id = items[k].id => j = k

\* two saves of the same new id, with different records, have both run: the
\* id is stored
C18_Witness ==
  /\ \E i \in DOMAIN history : \E j \in DOMAIN history :
       /\ i < j
       /\ history[i].op = "save" /\ history[j].op = "save"
       /\ history[i].equipment.id = history[j].equipment.id
       /\ history[i].equipment # history[j].equipment
       /\ find(localStorage[STORAGE_KEY].items, history[i].equipment.id) # 0

\* C19: while a user is logged in, every notification the application shows
\* (the notifications state passed to Layout) has that user's role as
\* recipient role or that user's id as recipient user id.
C19_OwnNotificationsOnly ==
  app.user # NoUser =>
    \A p \in DOMAIN app.notifications :
      visibleTo(app.notifications[p], app.user.id, app.user.role)

\* C20: once delete has removed every record, getAll returns the empty
\* collection and leaves the store as it is: the four seed records are not
\* created again.
C20_NoReseed ==
  (localStorage[STORAGE_KEY].present /\ localStorage[STORAGE_KEY].items = <<>>) =>
    LET g == getAll(localStorage, initialData)
    IN g.items = <<>> /\ g.ls = localStorage

\* the store was seeded, a notification tells of a record, and delete has
\* since removed every record
C20_Witness ==
  /\ loaded
  /\ localStorage[STORAGE_KEY].present
  /\ localStorage[STORAGE_KEY].items = <<>>
  /\ Len(notifications) > 0

\* C4: whatever operations overlapped, once all of them have completed the
\* persisted equipment collection is one that running the same operations one
\* after another, in some order, produces.
C4_Serializable ==
  procs = {} => localStorage[STORAGE_KEY] \in serialOutcomes

====
